---------------------------- MODULE Spec2Model ----------------------------
(***************************************************************************)
(* A model of pdf_forensics.py: the PDFTamperingDetector object, its       *)
(* detect() pass over the four analysis modules (metadata, structure,      *)
(* images, fonts) and the report it hands back.                            *)
(*                                                                         *)
(* Text values (metadata fields, keywords) are sequences of one-character  *)
(* strings, so slicing, lower-casing and substring search are computed the *)
(* way the Python code computes them.  ELA scores are fixed-point numbers  *)
(* in thousandths (10.0 is 10000).                                         *)
(*                                                                         *)
(* A flag in the program is a plain message string.  In the model a flag   *)
(* is a record: kind and the evidence fields (the texts s1, s2, s3, the    *)
(* numbers n, n2, n3 and the cause, << >>, -1 or "" when the message has   *)
(* no such value) are what the message says, while sev, mod and run are    *)
(* bookkeeping that the                                                    *)
(* program does not store: the severity the flag was added with (0 when    *)
(* it was appended without _add_flag), the module that was running and     *)
(* the number of the detect call.                                          *)
(***************************************************************************)
EXTENDS Integers, Sequences, FiniteSets

VARIABLES
    doc,              \* the PDF file at pdf_path (unchanged during a behaviour)
    det,              \* number of detectors constructed so far (0: none yet)
    pc,               \* where the current detector is
    inject,           \* modules whose document access fails in the current call
    flags,            \* self.flags
    suspicion_score,  \* self.suspicion_score
    report,           \* self.report
    calls,            \* detect calls made on the current detector
    runs,             \* detect calls made in total
    ran,              \* modules executed in the current detect call, in order
    returned,         \* what the caller saw when detect last returned on this detector
    first             \* what the caller saw when the first detect call returned

vars == <<doc, det, pc, inject, flags, suspicion_score, report, calls, runs,
          ran, returned, first>>

\* Bounds of the model.
MaxRuns == 2
MaxEOF == 2
MaxImages == 2

Modules == {"metadata", "structure", "images", "fonts"}

(***************************************************************************)
(* Text                                                                    *)
(***************************************************************************)
Digits == <<"0", "1", "2", "3", "4", "5", "6", "7", "8", "9">>
UpperCase == <<"A", "B", "C", "D", "E", "F", "G", "H", "I", "J", "K", "L", "M",
               "N", "O", "P", "Q", "R", "S", "T", "U", "V", "W", "X", "Y", "Z">>
LowerCase == <<"a", "b", "c", "d", "e", "f", "g", "h", "i", "j", "k", "l", "m",
               "n", "o", "p", "q", "r", "s", "t", "u", "v", "w", "x", "y", "z">>

IsDigit(c) == \E i \in 1..10 : Digits[i] = c
DigitVal(c) == (CHOOSE i \in 1..10 : Digits[i] = c) - 1

\* str.lower() on one character, then on a string
LowerChar(c) ==
    IF \E i \in 1..26 : UpperCase[i] = c
    THEN LowerCase[CHOOSE i \in 1..26 : UpperCase[i] = c]
    ELSE c
\* a lower() that leaves the text as it is
lower_identity(s) == s
lower(s) == [i \in 1..Len(s) |-> LowerChar(s[i])]

\* s[a:b] of Python, for 0 <= a <= b
Slice(s, a, b) ==
    IF a >= Len(s) THEN << >>
    ELSE SubSeq(s, a + 1, IF b < Len(s) THEN b ELSE Len(s))

\* k in s, for strings
Contains(k, s) ==
    \E i \in 0..(Len(s) - Len(k)) : SubSeq(s, i + 1, i + Len(k)) = k

(***************************************************************************)
(* datetime.strptime(t, "%Y%m%d"): the format is the regular expression    *)
(* (\d\d\d\d)(1[0-2]|0[1-9]|[1-9])(3[0-1]|[1-2]\d|0[1-9]|[1-9]| [1-9]),    *)
(* matched with backtracking in the order of the alternatives; the first   *)
(* match must use up the whole of t, and the fields must name a day of     *)
(* the calendar.  A parse failure is the value NoDate.                     *)
(***************************************************************************)
NoDate == [ok |-> FALSE, y |-> 0, m |-> 0, d |-> 0]

\* the lengths of the month alternatives that match at the head of r, in order
MonthLens(r) ==
    LET two == Len(r) >= 2 /\
               \/ r[1] = "1" /\ r[2] \in {"0", "1", "2"}
               \/ r[1] = "0" /\ IsDigit(r[2]) /\ r[2] # "0"
        one == Len(r) >= 1 /\ IsDigit(r[1]) /\ r[1] # "0"
    IN  (IF two THEN <<2>> ELSE << >>) \o (IF one THEN <<1>> ELSE << >>)

\* the length of the first day alternative that matches at the head of r (0: none)
DayLen(r) ==
    IF Len(r) >= 2 /\
       \/ r[1] = "3" /\ r[2] \in {"0", "1"}
       \/ r[1] \in {"1", "2"} /\ IsDigit(r[2])
       \/ r[1] = "0" /\ IsDigit(r[2]) /\ r[2] # "0"
    THEN 2
    ELSE IF Len(r) >= 1 /\ IsDigit(r[1]) /\ r[1] # "0" THEN 1
    ELSE IF Len(r) >= 2 /\ r[1] = " " /\ IsDigit(r[2]) /\ r[2] # "0" THEN 2
    ELSE 0

\* the value of a string of digits (blanks count for nothing)
RECURSIVE Number(_)
Number(s) ==
    IF s = << >> THEN 0
    ELSE IF IsDigit(s[Len(s)])
         THEN 10 * Number(SubSeq(s, 1, Len(s) - 1)) + DigitVal(s[Len(s)])
         ELSE Number(SubSeq(s, 1, Len(s) - 1))

IsLeap(y) == (y % 4 = 0 /\ y % 100 # 0) \/ y % 400 = 0
DaysInMonth(y, m) ==
    IF m = 2 THEN (IF IsLeap(y) THEN 29 ELSE 28)
    ELSE IF m \in {4, 6, 9, 11} THEN 30 ELSE 31

strptime(t) ==
    IF Len(t) < 4 \/ \E i \in 1..4 : ~IsDigit(t[i]) THEN NoDate
    ELSE
      LET r == SubSeq(t, 5, Len(t))
          ml == MonthLens(r)
          \* the first month alternative after which a day alternative matches
          good == {i \in 1..Len(ml) : DayLen(SubSeq(r, ml[i] + 1, Len(r))) > 0}
      IN  IF good = {} THEN NoDate
          ELSE
            LET i == CHOOSE j \in good : \A k \in good : j <= k
                dl == DayLen(SubSeq(r, ml[i] + 1, Len(r)))
                y == Number(SubSeq(t, 1, 4))
                m == Number(SubSeq(r, 1, ml[i]))
                d == Number(SubSeq(r, ml[i] + 1, ml[i] + dl))
            IN  IF ml[i] + dl # Len(r) THEN NoDate        \* unconverted data remains
                ELSE IF y < 1 \/ d > DaysInMonth(y, m) THEN NoDate
                ELSE [ok |-> TRUE, y |-> y, m |-> m, d |-> d]

\* date.toordinal(): days since 0001-01-01, which is day 1
RECURSIVE DaysBeforeMonth(_, _)
DaysBeforeMonth(y, m) ==
    IF m = 1 THEN 0 ELSE DaysBeforeMonth(y, m - 1) + DaysInMonth(y, m - 1)
toordinal(dt) ==
    LET y == dt.y - 1
    IN  y * 365 + (y \div 4) - (y \div 100) + (y \div 400)
        + DaysBeforeMonth(dt.y, dt.m) + dt.d

\* an abs() that leaves the sign as it is
Abs_identity(x) == x
Abs(x) == IF x < 0 THEN -x ELSE x


(***************************************************************************)
(* Documents.  A document is what the PDF libraries return for the file:   *)
(* the docinfo entries (a field is << >> when the key is absent, <<s>>     *)
(* when it has the text s), the number of %%EOF markers in the bytes, and  *)
(* the pages with their images and font lists.  An image is described by   *)
(* whether extract_image returns it, whether PIL can open and re-encode    *)
(* it, and the mean difference its re-encoding gives, in thousandths.      *)
(***************************************************************************)
d20250101 == <<"D", ":", "2", "0", "2", "5", "0", "1", "0", "1", "0", "0">>
d20250101b == <<"D", ":", "2", "0", "2", "5", "0", "1", "0", "1", "0", "9">>
d20250102 == <<"D", ":", "2", "0", "2", "5", "0", "1", "0", "2", "0", "0">>
d20250103 == <<"D", ":", "2", "0", "2", "5", "0", "1", "0", "3", "0", "0">>
d20240228 == <<"D", ":", "2", "0", "2", "4", "0", "2", "2", "8", "0", "0">>
d20240301 == <<"D", ":", "2", "0", "2", "4", "0", "3", "0", "1", "0", "0">>
dName == <<"/", "D", ":", "2", "0", "2", "5", "0", "1", "0", "1", "0", "0">>
dFeb30 == <<"D", ":", "2", "0", "2", "5", "0", "2", "3", "0", "0", "0">>
dShort == <<"D", ":", "2", "0", "2", "5", "0", "1", "1">>

DateTexts == {d20250101, d20250101b, d20250102, d20250103, d20240228, d20240301,
              dName, dFeb30, dShort}

tGimp == <<"G", "I", "M", "P", " ", "2", ".", "1", "0">>
tSkia == <<"S", "k", "i", "a", "/", "P", "D", "F">>
tSejdaGimp == <<"s", "e", "j", "d", "a", "+", "G", "i", "m", "p">>
tILovePDF == <<"i", "L", "o", "v", "e", "P", "D", "F">>

ToolTexts == {tGimp, tSkia, tSejdaGimp, tILovePDF}

Opt(S) == {<< >>} \cup {<<x>> : x \in S}

Meta(c, m, p, r) == [CreationDate |-> c, ModDate |-> m, Producer |-> p, Creator |-> r]

Image(e, d, s) == [extractable |-> e, decodable |-> d, ela |-> s]
imgLow == Image(TRUE, TRUE, 6500)
imgEdge == Image(TRUE, TRUE, 10000)
imgHigh == Image(TRUE, TRUE, 15324)
imgCorrupt == Image(TRUE, FALSE, 0)
imgLost == Image(FALSE, TRUE, 15324)

ImageKinds == {imgHigh, imgCorrupt, imgLost}

Page(imgs, ifail, fnts, ffail) ==
    [images |-> imgs, images_fail |-> ifail, fonts |-> fnts, fonts_fail |-> ffail]

Document(meta, eof, pages) == [meta |-> meta, eof |-> eof, pages |-> pages]

plainMeta == Meta(<<d20250101>>, <<d20250101>>, <<tSkia>>, << >>)
plainPage == Page(<<imgLow>>, FALSE, <<"Helvetica">>, FALSE)

\* documents that differ in their dates only, in their tools only, in their bytes only
DateDocs ==
    {Document(Meta(c, m, <<tSkia>>, << >>), 1, <<plainPage>>) :
        c \in Opt(DateTexts), m \in Opt(DateTexts)}
ToolDocs ==
    {Document(Meta(<<d20250101>>, <<d20250101>>, p, r), 1, <<plainPage>>) :
        p \in Opt(ToolTexts), r \in Opt(ToolTexts)}
ByteDocs == {Document(plainMeta, n, <<plainPage>>) : n \in 0..MaxEOF}

\* documents of at most MaxImages images, all on one page or split over two pages
ImageLists == UNION {[1..k -> ImageKinds] : k \in 0..MaxImages}
ImageDocs ==
    {Document(plainMeta, 1, <<Page(s, FALSE, <<"Helvetica">>, FALSE)>>) :
        s \in ImageLists}
    \cup
    UNION {{Document(plainMeta, 1,
                <<Page(SubSeq(s, 1, j), FALSE, <<"Helvetica">>, FALSE),
                  Page(SubSeq(s, j + 1, Len(s)), FALSE, <<"Helvetica">>, FALSE)>>) :
              j \in 0..Len(s)} : s \in ImageLists}
    \cup
    {Document(plainMeta, 1, <<Page(<<imgHigh>>, FALSE, <<"Helvetica">>, FALSE),
                              Page(<< >>, TRUE, <<"Helvetica">>, FALSE)>>),
     Document(plainMeta, 1, <<Page(<< >>, TRUE, <<"Helvetica">>, FALSE),
                              Page(<<imgHigh>>, FALSE, <<"Helvetica">>, FALSE)>>)}

\* documents of no, one or two pages that differ in their fonts only
FontLists == {<< >>, <<"Helvetica">>, <<"Arial", "Arial">>, <<"ABCDEF+Calibri", "Helvetica">>}
FontPages == {Page(<< >>, FALSE, f, FALSE) : f \in FontLists}
             \cup {Page(<< >>, FALSE, <<"Helvetica">>, TRUE)}
FontDocs ==
    {Document(plainMeta, 1, << >>)}
    \cup {Document(plainMeta, 1, <<p>>) : p \in FontPages}
    \cup {Document(plainMeta, 1, <<p, q>>) : p \in FontPages, q \in FontPages}

\* documents with findings in several modules at once
MixedDocs ==
    {Document(Meta(<<d20250101>>, <<d20250103>>, <<tGimp>>, <<tSejdaGimp>>), MaxEOF,
              <<Page(<<imgHigh, i>>, FALSE, <<"Arial">>, FALSE),
                Page(<<imgHigh>>, FALSE, <<"Helvetica">>, ff)>>) :
        i \in ImageKinds \cup {imgLow, imgEdge}, ff \in BOOLEAN}

Docs == ByteDocs \cup ImageDocs \cup FontDocs \cup MixedDocs
MetaDocs == DateDocs \cup ToolDocs

\* The sets of modules whose access to the file fails during one detect call.
InjectSets == {{}} \cup {{m} : m \in Modules} \cup {Modules}

(***************************************************************************)
(* Flags and the detector's accumulators                                   *)
(***************************************************************************)
Msg(kind, mod) ==
    [kind |-> kind, mod |-> mod, run |-> runs, sev |-> 0,
     s1 |-> << >>, s2 |-> << >>, s3 |-> << >>, n |-> -1, n2 |-> -1, n3 |-> -1,
     cause |-> ""]

NoDetails == [metadata |-> << >>, visual_analysis |-> << >>, fonts |-> << >>]

\* the fields of self that the modules work on; exc is the exception on its way out
\* of the module ("" when there is none)
Self == [flags |-> flags, score |-> suspicion_score, details |-> report.details,
         exc |-> ""]

\* an _add_flag that counts the flag instead of adding its severity
_add_flag_unit(st, message, severity) ==
    [st EXCEPT !.flags = Append(@, [message EXCEPT !.sev = severity]),
               !.score = @ + 1]
_add_flag(st, message, severity) ==
    [st EXCEPT !.flags = Append(@, [message EXCEPT !.sev = severity]),
               !.score = @ + severity]

(***************************************************************************)
(* _check_metadata                                                         *)
(***************************************************************************)
suspicious_keywords ==
    <<<<"g", "i", "m", "p">>,
      <<"p", "h", "o", "t", "o", "s", "h", "o", "p">>,
      <<"i", "l", "o", "v", "e", "p", "d", "f">>,
      <<"s", "e", "j", "d", "a">>,
      <<"s", "m", "a", "l", "l", "p", "d", "f">>,
      <<"p", "h", "a", "n", "t", "o", "m", "p", "d", "f">>>>

\* meta.get(key, ""), for a field of the model's metadata record
Get(field) == IF field = << >> THEN << >> ELSE field[1]

\* Check 1: CreationDate vs ModDate
DateCheck(st, meta) ==
    IF meta.CreationDate # << >> /\ meta.ModDate # << >>
    THEN
      LET c_date_str == meta.CreationDate[1]
          m_date_str == meta.ModDate[1]
          c_dt == strptime(Slice(c_date_str, 2, 10))
          m_dt == strptime(Slice(m_date_str, 2, 10))
      IN  IF c_dt.ok /\ m_dt.ok
          THEN
            LET diff == Abs(toordinal(m_dt) - toordinal(c_dt))
            IN  IF diff > 1
                THEN _add_flag(st, [Msg("Metadata mismatch (days)", "metadata") EXCEPT
                                       !.s1 = c_date_str, !.s2 = m_date_str, !.n = diff], 3)
                ELSE IF c_date_str # m_date_str
                THEN _add_flag(st, Msg("Minor metadata mismatch", "metadata"), 1)
                ELSE st
          ELSE \* the bare except: fallback if parsing fails
            IF c_date_str # m_date_str
            THEN _add_flag(st, Msg("Metadata mismatch", "metadata"), 2)
            ELSE st
    ELSE st

\* Check 2: Suspicious Producer/Creator; the loop from keyword number k on
RECURSIVE KeywordCheck(_, _, _)
KeywordCheck(st, meta, k) ==
    IF k > Len(suspicious_keywords) THEN st
    ELSE
      LET keyword == suspicious_keywords[k]
          producer == lower(Get(meta.Producer))
          creator == lower(Get(meta.Creator))
      IN  KeywordCheck(
              IF Contains(keyword, producer) \/ Contains(keyword, creator)
              THEN _add_flag(st, [Msg("Suspicious editing tool", "metadata") EXCEPT
                                     !.s1 = keyword, !.s2 = producer, !.s3 = creator], 3)
              ELSE st,
              meta, k + 1)

_check_metadata(st) ==
    IF "metadata" \in inject
    THEN \* pikepdf.Pdf.open raises; caught by the module's own except
         _add_flag(st, [Msg("Could not read metadata", "metadata") EXCEPT
                           !.cause = "MetadataUnreadable"], 1)
    ELSE
      LET meta == doc.meta
          st1 == [st EXCEPT !.details.metadata = <<meta>>]
      IN  KeywordCheck(DateCheck(st1, meta), meta, 1)

(***************************************************************************)
(* _check_structure                                                        *)
(***************************************************************************)
_check_structure(st) ==
    IF "structure" \in inject
    THEN \* open or read raises; caught by the module's own except
         _add_flag(st, [Msg("Structure check error", "structure") EXCEPT
                           !.cause = "IOFailure"], 1)
    ELSE
      LET eof_count == doc.eof
      IN  IF eof_count > 1
          THEN _add_flag(st, [Msg("Incremental updates detected", "structure") EXCEPT
                                 !.n = eof_count], 1)
          ELSE st

(***************************************************************************)
(* _analyze_images and _compute_ela                                        *)
(***************************************************************************)
ELA_THRESHOLD == 10000

\* the mean difference of the image and its re-encoding, or the failure of PIL
_compute_ela(img) ==
    IF img.decodable THEN [ok |-> TRUE, score |-> img.ela]
    ELSE [ok |-> FALSE, score |-> 0]

\* f"{ela_score:.2f}": the score in hundredths, rounded to nearest
Format2f(score) == (score + 5) \div 10

\* The two loops, from image number k (1-based here, img_index = k - 1) of page
\* number i (1-based here, as i + 1 in the code) on.  acc is [st, issues].
RECURSIVE ScanImages(_, _, _)
ScanImages(acc, i, k) ==
    IF i > Len(doc.pages) THEN acc
    ELSE IF doc.pages[i].images_fail
    THEN [acc EXCEPT !.st.exc = "get_images failed"]
    ELSE IF k > Len(doc.pages[i].images) THEN ScanImages(acc, i + 1, 1)
    ELSE
      LET img == doc.pages[i].images[k]
      IN  IF ~img.extractable
          THEN \* doc.extract_image raises, outside the inner try
               [acc EXCEPT !.st.exc = "extract_image failed"]
          ELSE
            LET ela == _compute_ela(img)
            IN  IF ela.ok /\ ela.score > ELA_THRESHOLD
                THEN ScanImages(
                       [st |-> _add_flag(acc.st,
                                   [Msg("Visual anomaly", "images") EXCEPT !.n = i], 2),
                        issues |-> Append(acc.issues,
                                   [page |-> i, img_index |-> k - 1,
                                    score |-> Format2f(ela.score)])],
                       i, k + 1)
                ELSE \* below the threshold, or the failure is printed and skipped
                     ScanImages(acc, i, k + 1)

_analyze_images(st) ==
    IF "images" \in inject
    THEN [st EXCEPT !.exc = "cannot open document"]
    ELSE
      LET acc == ScanImages([st |-> st, issues |-> << >>], 1, 1)
      IN  IF acc.st.exc = "" /\ acc.issues # << >>
          THEN [acc.st EXCEPT !.details.visual_analysis = <<acc.issues>>]
          ELSE acc.st

(***************************************************************************)
(* _check_fonts                                                            *)
(***************************************************************************)
\* the page loop from page i on; acc is [fonts, exc]
RECURSIVE ScanFonts(_, _)
ScanFonts(acc, i) ==
    IF i > Len(doc.pages) THEN acc
    ELSE IF doc.pages[i].fonts_fail THEN [acc EXCEPT !.exc = "get_fonts failed"]
    ELSE ScanFonts([acc EXCEPT !.fonts = @ \cup
                       {doc.pages[i].fonts[j] : j \in 1..Len(doc.pages[i].fonts)}],
                   i + 1)

\* details.fonts is list(fonts), a list in no particular order: a set here
_check_fonts(st) ==
    IF "fonts" \in inject
    THEN [st EXCEPT !.exc = "cannot open document"]
    ELSE
      LET acc == ScanFonts([fonts |-> {}, exc |-> ""], 1)
      IN  IF acc.exc # "" THEN [st EXCEPT !.exc = acc.exc]
          ELSE [st EXCEPT !.details.fonts = <<acc.fonts>>]

(***************************************************************************)
(* detect                                                                  *)
(***************************************************************************)
\* try: module() / except Exception as e: self.flags.append(f"{kind}: {str(e)}")
\* a detect without the except clause
Try_uncaught(st, kind, mod) == st
\* an except clause that assigns the list instead of appending to it
Try_overwrite(st, kind, mod) ==
    IF st.exc # ""
    THEN [st EXCEPT !.flags = <<[Msg(kind, mod) EXCEPT !.cause = st.exc]>>,
                    !.exc = ""]
    ELSE st
Try(st, kind, mod) ==
    IF st.exc # ""
    THEN [st EXCEPT !.flags = Append(@, [Msg(kind, mod) EXCEPT !.cause = st.exc]),
                    !.exc = ""]
    ELSE st

\* the caller's view of the report's "flags" entry: the list it was given in
\* __init__, or self.flags itself once detect has stored that list
ReportFlags == IF report.flags_is_self THEN flags ELSE << >>

\* what a caller reads from the report object
View == [flags |-> ReportFlags, suspicion_score |-> report.suspicion_score,
         details |-> report.details]

\* the state after one module: self's fields, the module's name on record, and the
\* next place in detect (an exception nobody caught leaves detect)
Step(st, mod, next) ==
    /\ flags' = st.flags
    /\ suspicion_score' = st.score
    /\ report' = [report EXCEPT !.details = st.details]
    /\ ran' = Append(ran, mod)
    /\ pc' = IF st.exc # "" THEN "raised" ELSE next
    /\ UNCHANGED <<doc, det, inject, calls, runs, returned, first>>

Start(D) ==
    /\ doc \in D
    /\ det = 0
    /\ pc = "none"
    /\ inject = {}
    /\ flags = << >>
    /\ suspicion_score = 0
    /\ report = [flags_is_self |-> FALSE, suspicion_score |-> 0, details |-> NoDetails]
    /\ calls = 0
    /\ runs = 0
    /\ ran = << >>
    /\ returned = << >>
    /\ first = << >>

\* PDFTamperingDetector(pdf_path): a new detector takes the place of the current one
New ==
    /\ pc \in {"none", "Completed"}
    /\ runs < MaxRuns
    /\ det' = det + 1
    /\ pc' = "NotStarted"
    /\ flags' = << >>
    /\ suspicion_score' = 0
    /\ report' = [flags_is_self |-> FALSE, suspicion_score |-> 0, details |-> NoDetails]
    /\ calls' = 0
    /\ returned' = << >>
    /\ ran' = << >>
    /\ UNCHANGED <<doc, inject, runs, first>>

\* detector.detect() is called: on a new detector, or again on one that has returned
Detect ==
    /\ pc \in {"NotStarted", "Completed"}
    /\ runs < MaxRuns
    /\ inject' \in InjectSets
    /\ calls' = calls + 1
    /\ runs' = runs + 1
    /\ ran' = << >>
    /\ pc' = "metadata"
    /\ UNCHANGED <<doc, det, flags, suspicion_score, report, returned, first>>

CheckMetadata ==
    /\ pc = "metadata"
    /\ Step(Try(_check_metadata(Self), "Metadata analysis failed", "metadata"),
            "metadata", "structure")

CheckStructure ==
    /\ pc = "structure"
    /\ Step(Try(_check_structure(Self), "Structural analysis failed", "structure"),
            "structure", "images")

AnalyzeImages ==
    /\ pc = "images"
    /\ Step(Try(_analyze_images(Self), "Image analysis failed", "images"),
            "images", "fonts")

CheckFonts ==
    /\ pc = "fonts"
    /\ Step(Try(_check_fonts(Self), "Font analysis failed", "fonts"),
            "fonts", "assemble")

\* self.report["flags"] = self.flags; self.report["suspicion_score"] = ...; return
Return ==
    /\ pc = "assemble"
    /\ report' = [report EXCEPT !.flags_is_self = TRUE,
                                !.suspicion_score = suspicion_score]
    /\ LET seen == [flags |-> flags, suspicion_score |-> suspicion_score,
                    details |-> report.details, inject |-> inject, run |-> runs,
                    calls |-> calls]
       IN  /\ returned' = <<seen>>
           /\ first' = IF first = << >> THEN <<seen>> ELSE first
    /\ pc' = "Completed"
    /\ UNCHANGED <<doc, det, inject, flags, suspicion_score, calls, runs, ran>>

Next ==
    \/ New
    \/ Detect
    \/ CheckMetadata
    \/ CheckStructure
    \/ AnalyzeImages
    \/ CheckFonts
    \/ Return

Init == Start(Docs)
Spec == Init /\ [][Next]_vars

\* the same detector on the documents that differ in their metadata
InitMeta == Start(MetaDocs)
SpecMeta == InitMeta /\ [][Next]_vars

(***************************************************************************)
(* Properties                                                              *)
(***************************************************************************)
RECURSIVE SumSev(_)
SumSev(fs) == IF fs = << >> THEN 0 ELSE fs[1].sev + SumSev(Tail(fs))

\* the flags module mod added during detect call number run, without the call number
Contribution(fs, mod, run) ==
    LET own == SelectSeq(fs, LAMBDA f : f.run = run /\ f.mod = mod)
    IN  [i \in 1..Len(own) |-> [own[i] EXCEPT !.run = 0]]

\* the flags of the current detect call
RunFlags(mod) == Contribution(flags, mod, runs)

\* the failure flags among them: the ones that report an exception
Failures(fs) == SelectSeq(fs, LAMBDA f : f.cause # "")

HasRun(mod) == \E i \in 1..Len(ran) : ran[i] = mod

\* C1: at every point of a detect call and when it has returned, suspicion_score
\* is the sum of the severities of the flags emitted so far (a failure flag that
\* detect appends itself has severity 0), and the score in the returned report is
\* the sum over the flags in it.
ScoreIsSumOfSeverities ==
    /\ suspicion_score = SumSev(flags)
    /\ \A i \in 1..Len(returned) :
           returned[i].suspicion_score = SumSev(returned[i].flags)
    /\ pc = "Completed" => report.suspicion_score = SumSev(ReportFlags)

ScoreWitness ==
    /\ pc = "Completed"
    /\ suspicion_score >= 5
    /\ \E i \in 1..Len(flags) : flags[i].cause # "" /\ flags[i].sev = 0
    /\ \E i \in 1..Len(flags) : flags[i].sev = 3
    /\ \E i \in 1..Len(flags) : flags[i].sev = 2

\* whether module mod fails as a whole in the current call on this document:
\* its access to the file fails, or (images) a page's image list or an image
\* cannot be fetched, or (fonts) a page's font list cannot be read
ModuleFails(mod) ==
    \/ mod \in inject
    \/ /\ mod = "images"
       /\ \E i \in 1..Len(doc.pages) :
             \/ doc.pages[i].images_fail
             \/ \E k \in 1..Len(doc.pages[i].images) : ~doc.pages[i].images[k].extractable
    \/ /\ mod = "fonts"
       /\ \E i \in 1..Len(doc.pages) : doc.pages[i].fonts_fail

\* C2: no failure leaves detect; a module that fails contributes exactly one
\* failure flag and a module that does not fail contributes none; all four
\* modules have run, in order, when detect returns its report.
FailuresAreContained ==
    /\ pc # "raised"
    /\ \A m \in Modules :
           HasRun(m) => Len(Failures(RunFlags(m))) = (IF ModuleFails(m) THEN 1 ELSE 0)
    /\ pc = "Completed" =>
           /\ ran = <<"metadata", "structure", "images", "fonts">>
           /\ returned # << >>
           /\ returned[1].flags = flags

AllFourFailWitness ==
    /\ pc = "Completed"
    /\ inject = Modules
    /\ \A m \in Modules : Len(Failures(RunFlags(m))) = 1
    /\ Len(RunFlags("images")) = 1

Isolated(a, b) ==
    \A m \in Modules :
        (a.inject = {} /\ b.inject = {m}) =>
            \A k \in Modules \ {m} :
                /\ Contribution(a.flags, k, a.run) = Contribution(b.flags, k, b.run)
                /\ SumSev(Contribution(a.flags, k, a.run))
                       = SumSev(Contribution(b.flags, k, b.run))

\* C3: when one of two detect calls on the document had no injected failure and
\* the other had a failure injected into exactly one module, every other module
\* contributed the same flags and the same score in both.
FailureIsIsolated ==
    (first # << >> /\ returned # << >>) =>
        /\ Isolated(first[1], returned[1])
        /\ Isolated(returned[1], first[1])

IsolationWitness ==
    /\ first # << >> /\ returned # << >>
    /\ first[1].inject = {}
    /\ returned[1].inject = {"images"}
    /\ Len(Contribution(returned[1].flags, "metadata", returned[1].run)) >= 2
    /\ Len(Contribution(returned[1].flags, "structure", returned[1].run)) = 1
    /\ Len(Contribution(first[1].flags, "images", first[1].run)) >= 2

FlagsSeen(seen) == [i \in 1..Len(seen.flags) |-> [seen.flags[i] EXCEPT !.run = 0]]

\* C4: two detect calls on the unchanged document, under the same conditions,
\* return the same sequence of flags and the same suspicion_score.
DetectIsIdempotent ==
    (first # << >> /\ returned # << >> /\ first[1].inject = returned[1].inject) =>
        /\ FlagsSeen(first[1]) = FlagsSeen(returned[1])
        /\ first[1].suspicion_score = returned[1].suspicion_score

DateKinds == {"Metadata mismatch (days)", "Minor metadata mismatch", "Metadata mismatch"}
DateFlags == SelectSeq(RunFlags("metadata"), LAMBDA f : f.kind \in DateKinds)

DaysApart(a, b) ==
    IF toordinal(a) >= toordinal(b) THEN toordinal(a) - toordinal(b)
    ELSE toordinal(b) - toordinal(a)

\* C5: the date check emits at most one flag: none when a key is missing (or the
\* metadata cannot be read at all); with
\* both dates parsed and d days apart, severity 3 with both texts and d when
\* d > 1, else severity 1 when the texts differ, else none; with a date that does
\* not parse, severity 2 exactly when the texts differ.
DateCheckTable ==
    HasRun("metadata") =>
      LET c == doc.meta.CreationDate
          m == doc.meta.ModDate
      IN  IF "metadata" \in inject \/ c = << >> \/ m = << >> THEN DateFlags = << >>
          ELSE
            LET cd == strptime(Slice(c[1], 2, 10))
                md == strptime(Slice(m[1], 2, 10))
            IN  IF cd.ok /\ md.ok
                THEN IF DaysApart(cd, md) > 1
                     THEN /\ Len(DateFlags) = 1
                          /\ DateFlags[1].sev = 3
                          /\ DateFlags[1].s1 = c[1]
                          /\ DateFlags[1].s2 = m[1]
                          /\ DateFlags[1].n = DaysApart(cd, md)
                     ELSE IF c[1] # m[1]
                     THEN Len(DateFlags) = 1 /\ DateFlags[1].sev = 1
                     ELSE DateFlags = << >>
                ELSE IF c[1] # m[1]
                     THEN Len(DateFlags) = 1 /\ DateFlags[1].sev = 2
                     ELSE DateFlags = << >>

DateCheckWitness ==
    /\ HasRun("metadata") /\ "metadata" \notin inject
    /\ doc.meta.CreationDate = <<d20240301>>
    /\ doc.meta.ModDate = <<d20240228>>
    /\ Len(DateFlags) = 1
    /\ DateFlags[1].sev = 3
    /\ DateFlags[1].n = 2

SameLetter(a, b) ==
    \/ a = b
    \/ \E i \in 1..26 : {a, b} = {UpperCase[i], LowerCase[i]}
Occurs(k, s) ==
    \E i \in 0..(Len(s) - Len(k)) : \A j \in 1..Len(k) : SameLetter(k[j], s[i + j])

ToolFlags == SelectSeq(RunFlags("metadata"), LAMBDA f : f.kind = "Suspicious editing tool")

\* C6: the tool check adds exactly one severity-3 flag for each keyword of the
\* list that occurs, in any casing, in Producer or Creator, and no other flag.
OneFlagPerKeyword ==
    (HasRun("metadata") /\ "metadata" \notin inject) =>
        /\ \A k \in 1..Len(suspicious_keywords) :
             LET kw == suspicious_keywords[k]
                 hit == \/ Occurs(kw, Get(doc.meta.Producer))
                        \/ Occurs(kw, Get(doc.meta.Creator))
             IN  Len(SelectSeq(ToolFlags, LAMBDA f : f.s1 = kw)) = (IF hit THEN 1 ELSE 0)
        /\ \A i \in 1..Len(ToolFlags) :
             /\ ToolFlags[i].sev = 3
             /\ \E k \in 1..Len(suspicious_keywords) : ToolFlags[i].s1 = suspicious_keywords[k]

KeywordWitness ==
    /\ HasRun("metadata") /\ "metadata" \notin inject
    /\ doc.meta.Producer = <<tGimp>>
    /\ doc.meta.Creator = <<tSejdaGimp>>
    /\ Len(ToolFlags) = 2
    /\ ToolFlags[1].s1 = <<"g", "i", "m", "p">>
    /\ ToolFlags[2].s1 = <<"s", "e", "j", "d", "a">>

HighImages ==
    {<<i, k>> \in (1..Len(doc.pages)) \X (1..MaxImages + 1) :
        /\ k <= Len(doc.pages[i].images)
        /\ doc.pages[i].images[k].extractable
        /\ doc.pages[i].images[k].decodable
        /\ doc.pages[i].images[k].ela > ELA_THRESHOLD}

VisualFlags == SelectSeq(RunFlags("images"), LAMBDA f : f.kind = "Visual anomaly")

Notes == IF report.details.visual_analysis = << >> THEN << >>
         ELSE report.details.visual_analysis[1]

\* C7: every image whose ELA score exceeds 10.0 gets exactly one severity-2 flag
\* that names the page, the image index and the score to 2 decimal places, and
\* one note in details.visual_analysis; the other images get neither.
EveryHighImageIsFlagged ==
    (HasRun("images") /\ calls = 1) =>
        /\ Len(VisualFlags) = Cardinality(HighImages)
        /\ Len(Notes) = Cardinality(HighImages)
        /\ \A p \in HighImages :
             LET score == Format2f(doc.pages[p[1]].images[p[2]].ela)
             IN  /\ \E j \in 1..Len(VisualFlags) :
                       /\ VisualFlags[j].sev = 2
                       /\ VisualFlags[j].n = p[1]
                       /\ VisualFlags[j].n2 = p[2] - 1
                       /\ VisualFlags[j].n3 = score
                 /\ \E j \in 1..Len(Notes) :
                       Notes[j] = [page |-> p[1], img_index |-> p[2] - 1, score |-> score]

\* C8: a failure on one image (extracting, decoding or re-encoding it) is caught
\* at that image: it adds no flag, and every other image still gets the flag and
\* the note it would get without the bad image.
ImageFailureIsLocal ==
    (/\ HasRun("images") /\ calls = 1
     /\ "images" \notin inject
     /\ \A i \in 1..Len(doc.pages) : ~doc.pages[i].images_fail) =>
        /\ Failures(RunFlags("images")) = << >>
        /\ Len(VisualFlags) = Cardinality(HighImages)
        /\ Len(Notes) = Cardinality(HighImages)

RECURSIVE FontsUpTo(_)
FontsUpTo(i) ==
    IF i = 0 THEN {}
    ELSE FontsUpTo(i - 1) \cup {doc.pages[i].fonts[j] : j \in 1..Len(doc.pages[i].fonts)}

FirstBadFontPage ==
    IF "fonts" \in inject THEN 1
    ELSE CHOOSE i \in 1..Len(doc.pages) :
             doc.pages[i].fonts_fail /\ \A j \in 1..(i - 1) : ~doc.pages[j].fonts_fail

\* C9: when font enumeration fails, the call records exactly one failure flag of
\* severity 1 for the font module and details.fonts holds the names gathered from
\* the pages before the failure; when it does not fail, the font module emits no
\* flag and details.fonts holds the names of all pages.
FontFailureIsRecorded ==
    (HasRun("fonts") /\ calls = 1) =>
        IF ModuleFails("fonts")
        THEN /\ Len(RunFlags("fonts")) = 1
             /\ RunFlags("fonts")[1].cause # ""
             /\ RunFlags("fonts")[1].sev = 1
             /\ report.details.fonts = <<FontsUpTo(FirstBadFontPage - 1)>>
        ELSE /\ RunFlags("fonts") = << >>
             /\ report.details.fonts = <<FontsUpTo(Len(doc.pages))>>

\* C10: once detect has returned a report, nothing that happens to the detector
\* later (another detect call included) changes the flags, the score or the
\* details the caller reads from that report.
ReturnedReportIsFinal ==
    returned # << >> =>
        /\ View.flags = returned[1].flags
        /\ View.suspicion_score = returned[1].suspicion_score
        /\ View.details = returned[1].details

=============================================================================
